---- MODULE Spec2Model ----
(***************************************************************************)
(* Programming Courses API (src/main.py, src/schemas.py).                  *)
(*                                                                         *)
(* The service is a set of request handlers over a document store.  Each   *)
(* request is run by a worker (FastAPI runs `def` handlers on a thread     *)
(* pool), so handlers of different requests interleave at the granularity  *)
(* of their store operations.  A handler that issues several store         *)
(* operations (the seeders: count, insert, insert, ..., find) is modelled  *)
(* by one step per store operation; a handler with one store operation is  *)
(* one step.  A collection is a bag (multiset) of documents: the store     *)
(* assigns every document its own _id, so equal documents are kept apart,  *)
(* and no handler sorts or depends on the order of a collection.           *)
(*                                                                         *)
(* Two behaviours of the driver and the store are left open, because the   *)
(* handlers do not fix them:                                               *)
(*  - update_one(..., upsert=True) queries, then modifies the match or     *)
(*    inserts.  main.py creates no unique index on email, so two upserts   *)
(*    that both find no match both insert (UpdateOne, UpsertInsert).       *)
(*  - category_detail tests `if db`; bool() of a Database raises           *)
(*    NotImplementedError in pymongo >= 4 and is True before that          *)
(*    (dbBoolRaises, DbTruth).                                             *)
(*                                                                         *)
(* The variables commented "history" record what has happened; no handler  *)
(* reads them.                                                             *)
(***************************************************************************)
EXTENDS Integers, Sequences, FiniteSets, Bags, TLC

\* ------------------------------------------------------------------ bounds

\* Number of worker threads serving requests at the same time.
NumWorkers == 2
\* Number of requests the clients send to the handlers of the seeded
\* collections, or to subscribe.
MaxRequests == 2
\* Number of contact submissions the clients send.
MaxContacts == 3
\* Largest value of the wall clock (datetime.utcnow) in the model.
MaxTime == 1

Workers == 1..NumWorkers

\* ------------------------------------------------------- program constants

\* schemas.py: ContactMessage.name min_length
NameMinLength == 2
\* schemas.py: ContactMessage.message min_length / max_length
MessageMinLength == 10
MessageMaxLength == 2000

\* Optional[T]: None is the empty sequence, a present value v is <<v>>.
None == <<>>
Some(v) == <<v>>

\* The seed catalog built in _ensure_categories_seeded, in list order.
CategorySeed ==
  << [slug |-> "web-development", title |-> "Web Development"],
     [slug |-> "ai-programming",  title |-> "AI Programming"],
     [slug |-> "robotics",        title |-> "Robotics"],
     [slug |-> "drone",           title |-> "Drone Programming"],
     [slug |-> "3d-printing",     title |-> "3D Product & Printing"] >>

\* The team built in _ensure_staff_seeded, in list order.
StaffSeed ==
  << [name |-> "Ava Chen",      role |-> "Head of AI"],
     [name |-> "Miguel Torres", role |-> "Robotics Lead"],
     [name |-> "Sara Patel",    role |-> "Web Instructor"] >>

\* The two collections that are seeded lazily.
SeededCollections == {"coursecategory", "staff"}

Seed(c) == IF c = "coursecategory" THEN CategorySeed ELSE StaffSeed

\* ------------------------------------------------------------ request inputs

\* Slugs a client asks for: the last of the catalog and one that is in no record.
Slugs == {"3d-printing", "no-such-slug"}

\* Email strings a client sends; the last one is not an address.
Emails == {"a@x.io", "b@x.io"}
BadEmail == "not-an-email"

\* EmailStr validation (pydantic): the string is an address.
IsEmail(s) == s \in Emails

\* Subscription bodies: name and interests are Optional.
SubscriptionBodies ==
  [email : Emails, name : {None, Some("Ann")},
   interests : {None, Some(<<"ai">>)}]
    \cup {[email |-> BadEmail, name |-> Some("Ann"), interests |-> None]}

\* Contact bodies; strings are represented by their length, which is all
\* the schema constrains.  Two bodies with equal fields are identical.
ContactBodies ==
  [name : {NameMinLength - 1, NameMinLength},
   email : {"a@x.io"},
   message : {MessageMinLength - 1, MessageMinLength,
              MessageMaxLength, MessageMaxLength + 1}]
    \cup {[name |-> NameMinLength, email |-> BadEmail,
           message |-> MessageMinLength]}

NoBody == [email |-> "", name |-> None, interests |-> None]

\* schemas.py ContactMessage: name min_length=2, email EmailStr,
\* message min_length=10, max_length=2000.
ValidContact(m) ==
  /\ m.name >= NameMinLength
  /\ IsEmail(m.email)
  /\ m.message >= MessageMinLength
  /\ m.message <= MessageMaxLength

\* schemas.py Subscription: email EmailStr; name and interests optional.
ValidSubscription(b) == IsEmail(b.email)

\* ------------------------------------------------------------------- state

VARIABLES
  dbOn,            \* database.db is not None (DATABASE_URL and DATABASE_NAME set)
  dbBoolRaises,    \* bool(db) raises (Database.__bool__ of pymongo >= 4), else it is True
  coursecategory,  \* the four collections, each a bag of documents
  staff,
  contactmessage,
  subscription,
  now,             \* the wall clock read by datetime.utcnow()
  pc,              \* per worker: the store operation its handler performs next
  loc,             \* per worker: the handler's local variables
  resp,            \* the response sent by the latest step (NoResp if it sent none)
  nRequests,       \* requests received so far
  overlapped,      \* history: collections on which two requests were in flight together
  faulted,         \* history: collections on which a store operation raised
  storeTouched,    \* history: some store operation was issued
  counted,         \* history: seeded collections some seeder call has counted
  firstSub,        \* history: per email, the first successful subscribe call
  lastSub,         \* history: per email, the latest successful subscribe call
  nContactOk       \* history: contact submissions answered "ok"

vars == << dbOn, dbBoolRaises, coursecategory, staff, contactmessage,
           subscription, now, pc, loc, resp, nRequests, overlapped,
           faulted, storeTouched, counted, firstSub, lastSub, nContactOk >>

storeVars == << coursecategory, staff, contactmessage, subscription >>
histVars == << counted, firstSub, lastSub, nContactOk >>
envVars == << dbOn, dbBoolRaises >>

Idle == [op |-> "none", coll |-> "none", slug |-> "", idx |-> 0, ins |-> 0,
         zero |-> FALSE, later |-> FALSE, body |-> NoBody, tupd |-> 0,
         tcrt |-> 0]

NoResp == [op |-> "none", status |-> 0, cause |-> "none", items |-> EmptyBag,
           ins |-> 0, zero |-> FALSE, later |-> FALSE, slug |-> "",
           body |-> NoBody]

Init ==
  /\ dbOn \in BOOLEAN
  /\ dbBoolRaises \in (IF dbOn THEN BOOLEAN ELSE {FALSE})
  /\ coursecategory = EmptyBag
  /\ staff = EmptyBag
  /\ contactmessage = EmptyBag
  /\ subscription = EmptyBag
  /\ now = 0
  /\ pc = [w \in Workers |-> "idle"]
  /\ loc = [w \in Workers |-> Idle]
  /\ resp = NoResp
  /\ nRequests = 0
  /\ overlapped = {}
  /\ faulted = {}
  /\ storeTouched = FALSE
  /\ counted = {}
  /\ firstSub = [e \in Emails |-> None]
  /\ lastSub = [e \in Emails |-> None]
  /\ nContactOk = 0

\* ---------------------------------------------------------- store helpers

One(d) == SetToBag({d})

Contents(c) == IF c = "coursecategory" THEN coursecategory ELSE staff

\* collection.count_documents({})
count_documents(c) == BagCardinality(Contents(c))

\* create_document(collection, data): insert_one of the data.
create_document(docs, d) == docs (+) One(d)

\* collection.find({}, {"_id": 0}): every document.
find(c) == Contents(c)

\* find_one({"slug": slug}, {"_id": 0}): a document with that slug, or None.
\* Documents of one slug are copies of one seed record, so which copy the
\* store returns makes no difference.
find_one(docs, slug) ==
  LET hits == {d \in BagToSet(docs) : d.slug = slug}
  IN IF hits = {} THEN None ELSE Some(CHOOSE d \in hits : TRUE)

\* db.list_collection_names(): a collection exists once it holds a document.
list_collection_names ==
  {c \in {"coursecategory", "staff", "contactmessage", "subscription"} :
     CASE c = "coursecategory" -> coursecategory # EmptyBag
       [] c = "staff" -> staff # EmptyBag
       [] c = "contactmessage" -> contactmessage # EmptyBag
       [] OTHER -> subscription # EmptyBag}

\* ------------------------------------------------------- request dispatch

\* A request arrives and is given to worker w, the first free one (the
\* workers are interchangeable threads of one pool).
Receive(w, cap) ==
  /\ pc[w] = "idle"
  /\ \A v \in Workers : v < w => pc[v] # "idle"
  /\ nRequests < cap
  /\ nRequests' = nRequests + 1

Accept(w) == Receive(w, MaxRequests)

\* The request that starts on collection c meets another one in flight on c.
Overlaps(w, c) == \E v \in Workers \ {w} : pc[v] # "idle" /\ loc[v].coll = c

NoteOverlap(w, c) ==
  overlapped' = IF Overlaps(w, c) THEN overlapped \cup {c} ELSE overlapped

\* The handler of worker w answers and the worker is free again.
Reply(w, st, cause, items) ==
  /\ resp' = [op |-> loc[w].op, status |-> st, cause |-> cause,
              items |-> items, ins |-> loc[w].ins, zero |-> loc[w].zero,
              later |-> loc[w].later, slug |-> loc[w].slug,
              body |-> loc[w].body]
  /\ pc' = [pc EXCEPT ![w] = "idle"]
  /\ loc' = [loc EXCEPT ![w] = Idle]

\* A handler that answers in the step that receives the request.
ReplyAtOnce(o, st, cause, items, slug, body) ==
  /\ resp' = [NoResp EXCEPT !.op = o, !.status = st, !.cause = cause,
                            !.items = items, !.slug = slug, !.body = body]
  /\ UNCHANGED << pc, loc >>

\* A store operation of worker w raises: the handler's `except Exception`
\* answers HTTP 500 with the error's text.
StoreError(w) ==
  /\ pc[w] \in {"count", "insert", "find", "find_one", "update_one",
                "upsert_insert"}
  /\ faulted' = faulted \cup {loc[w].coll}
  /\ storeTouched' = TRUE
  /\ Reply(w, 500, "store", EmptyBag)
  /\ UNCHANGED << envVars, storeVars, now, nRequests, overlapped, histVars >>

\* ---------------------------------------------------------------- seeders

\* Variant of SeederUnavailable: the guard is missing.
SeederNeverUnavailable == FALSE

\* `if db is None: return []` at the head of both seeders.
SeederUnavailable == ~dbOn

\* Variant of NeedsSeeding: seed on every call.
NeedsSeedingAlways(n, c) == TRUE

\* Variant of NeedsSeeding: seed whenever the collection is incomplete.
NeedsSeedingWhenIncomplete(n, c) == n < Len(Seed(c))

\* The seeders' test `collection.count_documents({}) == 0`, n the count of
\* collection c.
NeedsSeeding(n, c) == n = 0

\* Variant of SeedInsert: the loop stops one record short.
SeedInsertButLast(c, i, docs) ==
  IF i = Len(Seed(c)) THEN docs ELSE create_document(docs, Seed(c)[i])

\* Variant of SeedInsert: a record already present is not inserted again.
SeedInsertIfAbsent(c, i, docs) ==
  IF BagIn(Seed(c)[i], docs) THEN docs ELSE create_document(docs, Seed(c)[i])

\* One turn of the seeders' loop `for d in docs: create_document(c, d)`.
SeedInsert(c, i, docs) == create_document(docs, Seed(c)[i])

SeederOf(o) == IF o = "staff_list" THEN "staff" ELSE "coursecategory"

\* list_categories / staff_list / category_detail received with a database:
\* the handler enters its seeder.
StartSeeded(w, o, s) ==
  /\ Accept(w)
  /\ ~SeederUnavailable
  /\ pc' = [pc EXCEPT ![w] = "count"]
  /\ loc' = [loc EXCEPT ![w] = [Idle EXCEPT !.op = o, !.coll = SeederOf(o),
                                            !.slug = s]]
  /\ NoteOverlap(w, SeederOf(o))
  /\ resp' = NoResp
  /\ UNCHANGED << envVars, storeVars, now, faulted, storeTouched, histVars >>

\* list_categories / staff_list with db None: the seeder returns [] and the
\* handler answers {"items": []}.
ListNoDb(w, o) ==
  /\ Accept(w)
  /\ SeederUnavailable
  /\ ReplyAtOnce(o, 200, "none", EmptyBag, "", NoBody)
  /\ UNCHANGED << envVars, storeVars, now, overlapped, faulted, storeTouched,
                  histVars >>

\* category_detail with db None: the seeder returns [], `if db` is false,
\* doc is None: 404.
DetailNoDb(w, s) ==
  /\ Accept(w)
  /\ SeederUnavailable
  /\ ReplyAtOnce("category_detail", 404, "not_found", EmptyBag, s, NoBody)
  /\ UNCHANGED << envVars, storeVars, now, overlapped, faulted, storeTouched,
                  histVars >>

\* if collection.count_documents({}) == 0:
Count(w) ==
  /\ pc[w] = "count"
  /\ LET c == loc[w].coll
         z == NeedsSeeding(count_documents(c), c)
     IN /\ pc' = [pc EXCEPT ![w] = IF z THEN "insert" ELSE "find"]
        /\ loc' = [loc EXCEPT ![w].zero = z, ![w].idx = IF z THEN 1 ELSE 0,
                              ![w].later = (c \in counted)]
        /\ counted' = counted \cup {c}
  /\ storeTouched' = TRUE
  /\ resp' = NoResp
  /\ UNCHANGED << envVars, storeVars, now, nRequests, overlapped, faulted,
                  firstSub, lastSub, nContactOk >>

\* for d in docs: create_document(collection, d)   -- one turn of the loop
Insert(w) ==
  /\ pc[w] = "insert"
  /\ LET c == loc[w].coll
         i == loc[w].idx
     IN /\ IF c = "coursecategory"
           THEN /\ coursecategory' = SeedInsert(c, i, coursecategory)
                /\ UNCHANGED staff
           ELSE /\ staff' = SeedInsert(c, i, staff)
                /\ UNCHANGED coursecategory
        /\ pc' = [pc EXCEPT ![w] = IF i = Len(Seed(c)) THEN "find" ELSE "insert"]
        /\ loc' = [loc EXCEPT ![w].idx = i + 1, ![w].ins = @ + 1]
  /\ storeTouched' = TRUE
  /\ resp' = NoResp
  /\ UNCHANGED << envVars, contactmessage, subscription, now, nRequests,
                  overlapped, faulted, histVars >>

\* return list(collection.find({}, {"_id": 0})); a list handler answers
\* {"items": data}; category_detail goes on to its lookup.
Find(w) ==
  /\ pc[w] = "find"
  /\ storeTouched' = TRUE
  /\ IF loc[w].op = "category_detail"
     THEN /\ pc' = [pc EXCEPT ![w] = "bool"]
          /\ resp' = NoResp
          /\ UNCHANGED loc
     ELSE Reply(w, 200, "none", find(loc[w].coll))
  /\ UNCHANGED << envVars, storeVars, now, nRequests, overlapped, faulted,
                  histVars >>

\* category_detail: `... if db else None` takes the truth value of a
\* Database object.  Where Database.__bool__ raises NotImplementedError the
\* handler's `except Exception` answers 500; elsewhere the lookup follows.
DbTruth(w) ==
  /\ pc[w] = "bool"
  /\ IF dbBoolRaises
     THEN Reply(w, 500, "bool", EmptyBag)
     ELSE /\ pc' = [pc EXCEPT ![w] = "find_one"]
          /\ resp' = NoResp
          /\ UNCHANGED loc
  /\ UNCHANGED << envVars, storeVars, now, nRequests, overlapped, faulted,
                  storeTouched, histVars >>

\* doc = db["coursecategory"].find_one({"slug": slug}, {"_id": 0});
\* `if not doc: raise HTTPException(404)`, re-raised as it is by
\* `except HTTPException: raise`; else the doc is the answer.
FindOne(w) ==
  /\ pc[w] = "find_one"
  /\ storeTouched' = TRUE
  /\ LET doc == find_one(coursecategory, loc[w].slug)
     IN IF doc = None
        THEN Reply(w, 404, "not_found", EmptyBag)
        ELSE Reply(w, 200, "none", One(doc[1]))
  /\ UNCHANGED << envVars, storeVars, now, nRequests, overlapped, faulted,
                  histVars >>

\* -------------------------------------------------------------- subscribe

\* Variant of SubscribeUnavailable: the guard is missing.
SubscribeNeverUnavailable == FALSE

\* `if db is None: raise Exception("Database not available")`
SubscribeUnavailable == ~dbOn

\* The filter {"email": body.email} of update_one.
Matches(docs, b) == {d \in BagToSet(docs) : d.email = b.email}

\* Variant of SetFields: created_at is set on every call.
SetFieldsAndCreated(d, b, tupd, tcrt) ==
  [d EXCEPT !.email = b.email, !.name = b.name, !.interests = b.interests,
            !.updated_at = tupd, !.created_at = tcrt]

\* "$set": {**body.model_dump(), "updated_at": utcnow()} applied to d.
SetFields(d, b, tupd, tcrt) ==
  [d EXCEPT !.email = b.email, !.name = b.name, !.interests = b.interests,
            !.updated_at = tupd]

\* The document an upsert inserts: the filter's email, the "$set" fields and
\* "$setOnInsert": {"created_at": utcnow()}.
Upserted(b, tupd, tcrt) ==
  [email |-> b.email, name |-> b.name, interests |-> b.interests,
   updated_at |-> tupd, created_at |-> tcrt]

\* The two utcnow() readings of one call, updated_at's first: the clock does
\* not go back and may advance between two readings.
Readings == {t \in (now..MaxTime) \X (now..MaxTime) :
               t[1] <= now + 1 /\ t[1] <= t[2] /\ t[2] <= t[1] + 1}

\* What a successful call leaves in the history of its email.
NoteSubscribed(w) ==
  LET b == loc[w].body
      call == [name |-> b.name, interests |-> b.interests,
               updated_at |-> loc[w].tupd, created_at |-> loc[w].tcrt]
  IN /\ firstSub' = IF firstSub[b.email] = None
                    THEN [firstSub EXCEPT ![b.email] = Some(call)]
                    ELSE firstSub
     /\ lastSub' = [lastSub EXCEPT ![b.email] = Some(call)]

\* POST /api/subscribe with a body the Subscription schema rejects: the
\* framework answers 422 and the handler does not run.
SubscribeRejected(w, b) ==
  /\ Accept(w)
  /\ ~ValidSubscription(b)
  /\ ReplyAtOnce("subscribe", 422, "validation", EmptyBag, "", b)
  /\ UNCHANGED << envVars, storeVars, now, overlapped, faulted, storeTouched,
                  histVars >>

\* subscribe with db None: the raise is caught by `except Exception` and
\* answered as 500 "Database not available".
SubscribeNoDb(w, b) ==
  /\ Accept(w)
  /\ ValidSubscription(b)
  /\ SubscribeUnavailable
  /\ ReplyAtOnce("subscribe", 500, "unavailable", EmptyBag, "", b)
  /\ UNCHANGED << envVars, storeVars, now, overlapped, faulted, storeTouched,
                  histVars >>

\* subscribe with a database: the arguments of update_one are built (both
\* timestamps are read) and the call is issued.
StartSubscribe(w, b) ==
  /\ Accept(w)
  /\ ValidSubscription(b)
  /\ ~SubscribeUnavailable
  /\ \E t \in Readings :
       /\ loc' = [loc EXCEPT ![w] = [Idle EXCEPT !.op = "subscribe",
                                                 !.coll = "subscription",
                                                 !.body = b, !.tupd = t[1],
                                                 !.tcrt = t[2]]]
       /\ now' = t[2]
  /\ pc' = [pc EXCEPT ![w] = "update_one"]
  /\ NoteOverlap(w, "subscription")
  /\ resp' = NoResp
  /\ UNCHANGED << envVars, storeVars, faulted, storeTouched, histVars >>

\* update_one(filter, update, upsert=True), the store's query phase.  A
\* matching document is modified in place, atomically.  With no match the
\* store goes on to insert; no unique index on email exists, so nothing
\* ties that insert to the query that found no match.
UpdateOne(w) ==
  /\ pc[w] = "update_one"
  /\ storeTouched' = TRUE
  /\ LET b == loc[w].body
         hits == Matches(subscription, b)
     IN IF hits = {}
        THEN /\ pc' = [pc EXCEPT ![w] = "upsert_insert"]
             /\ resp' = NoResp
             /\ UNCHANGED << loc, subscription, firstSub, lastSub >>
        ELSE /\ \E d \in hits :
                  subscription' =
                    (subscription (-) One(d))
                      (+) One(SetFields(d, b, loc[w].tupd, loc[w].tcrt))
             /\ NoteSubscribed(w)
             /\ Reply(w, 200, "none", EmptyBag)
  /\ UNCHANGED << envVars, coursecategory, staff, contactmessage, now,
                  nRequests, overlapped, faulted, counted, nContactOk >>

\* update_one(..., upsert=True), the insert of an upsert that matched nothing.
UpsertInsert(w) ==
  /\ pc[w] = "upsert_insert"
  /\ storeTouched' = TRUE
  /\ subscription' =
       subscription (+) One(Upserted(loc[w].body, loc[w].tupd, loc[w].tcrt))
  /\ NoteSubscribed(w)
  /\ Reply(w, 200, "none", EmptyBag)
  /\ UNCHANGED << envVars, coursecategory, staff, contactmessage, now,
                  nRequests, overlapped, faulted, counted, nContactOk >>

\* ----------------------------------------------------------------- contact

\* Variant of ContactStore: a message equal to a stored one is not stored.
ContactStoreOnce(docs, m) ==
  IF BagIn(m, docs) THEN docs ELSE create_document(docs, m)

\* create_document("contactmessage", message)
ContactStore(docs, m) == create_document(docs, m)

\* POST /api/contact with a body the ContactMessage schema rejects: the
\* framework answers 422 and the handler does not run.
ContactRejected(w, m) ==
  /\ Receive(w, MaxContacts)
  /\ ~ValidContact(m)
  /\ ReplyAtOnce("contact", 422, "validation", EmptyBag, "", m)
  /\ UNCHANGED << envVars, storeVars, now, overlapped, faulted, storeTouched,
                  histVars >>

\* contact with db None: create_document raises, answered as 500.
ContactNoDb(w, m) ==
  /\ Receive(w, MaxContacts)
  /\ ValidContact(m)
  /\ ~dbOn
  /\ ReplyAtOnce("contact", 500, "unavailable", EmptyBag, "", m)
  /\ UNCHANGED << envVars, storeVars, now, overlapped, faulted, storeTouched,
                  histVars >>

\* contact whose insert raises: answered as 500.
ContactStoreError(w, m) ==
  /\ Receive(w, MaxContacts)
  /\ ValidContact(m)
  /\ dbOn
  /\ faulted' = faulted \cup {"contactmessage"}
  /\ storeTouched' = TRUE
  /\ ReplyAtOnce("contact", 500, "store", EmptyBag, "", m)
  /\ UNCHANGED << envVars, storeVars, now, overlapped, histVars >>

\* contact: the message is stored and "ok" is answered.
Contact(w, m) ==
  /\ Receive(w, MaxContacts)
  /\ ValidContact(m)
  /\ dbOn
  /\ contactmessage' = ContactStore(contactmessage, m)
  /\ nContactOk' = nContactOk + 1
  /\ storeTouched' = TRUE
  /\ ReplyAtOnce("contact", 200, "none", EmptyBag, "", m)
  /\ UNCHANGED << envVars, coursecategory, staff, subscription, now,
                  overlapped, faulted, counted, firstSub, lastSub >>

\* ------------------------------------------------------------------- /test

\* test_database with db None: the initial response is returned as it is.
TestNoDb(w) ==
  /\ Accept(w)
  /\ ~dbOn
  /\ ReplyAtOnce("test", 200, "Not Available", EmptyBag, "", NoBody)
  /\ UNCHANGED << envVars, storeVars, now, overlapped, faulted, storeTouched,
                  histVars >>

\* test_database with a database: list_collection_names() answers, or it
\* raises and the inner `except` reports "Connected but Error".
TestDb(w) ==
  /\ Accept(w)
  /\ dbOn
  /\ storeTouched' = TRUE
  /\ \/ /\ ReplyAtOnce("test", 200, "Connected & Working",
                       SetToBag(list_collection_names), "", NoBody)
        /\ UNCHANGED faulted
     \/ /\ ReplyAtOnce("test", 200, "Connected but Error", EmptyBag, "",
                       NoBody)
        /\ faulted' = faulted \cup {"test"}
  /\ UNCHANGED << envVars, storeVars, now, overlapped, histVars >>

\* -------------------------------------------------------------------- Next

\* The handlers that read the seeded collections, and /test.
NextSeeding ==
  \/ \E w \in Workers, o \in {"list_categories", "staff_list"} :
        StartSeeded(w, o, "")
  \/ \E w \in Workers, s \in Slugs : StartSeeded(w, "category_detail", s)
  \/ \E w \in Workers, o \in {"list_categories", "staff_list"} : ListNoDb(w, o)
  \/ \E w \in Workers, s \in Slugs : DetailNoDb(w, s)
  \/ \E w \in Workers : StoreError(w)
  \/ \E w \in Workers : Count(w)
  \/ \E w \in Workers : Insert(w)
  \/ \E w \in Workers : Find(w)
  \/ \E w \in Workers : DbTruth(w)
  \/ \E w \in Workers : FindOne(w)
  \/ \E w \in Workers : TestNoDb(w)
  \/ \E w \in Workers : TestDb(w)

\* POST /api/subscribe.
NextSubscribe ==
  \/ \E w \in Workers, b \in SubscriptionBodies : SubscribeRejected(w, b)
  \/ \E w \in Workers, b \in SubscriptionBodies : SubscribeNoDb(w, b)
  \/ \E w \in Workers, b \in SubscriptionBodies : StartSubscribe(w, b)
  \/ \E w \in Workers : StoreError(w)
  \/ \E w \in Workers : UpdateOne(w)
  \/ \E w \in Workers : UpsertInsert(w)

\* POST /api/contact.
NextContact ==
  \/ \E w \in Workers, m \in ContactBodies : ContactRejected(w, m)
  \/ \E w \in Workers, m \in ContactBodies : ContactNoDb(w, m)
  \/ \E w \in Workers, m \in ContactBodies : ContactStoreError(w, m)
  \/ \E w \in Workers, m \in ContactBodies : Contact(w, m)

Next == NextSeeding \/ NextSubscribe \/ NextContact

\* The whole service.
Spec == Init /\ [][Next]_vars

\* The handlers of one group of collections on their own.  The groups share
\* no collection and only subscribe reads the clock, so what holds of a
\* group's collections under its own specification holds of them under Spec.
SpecSeeding == Init /\ [][NextSeeding]_vars
SpecSubscribe == Init /\ [][NextSubscribe]_vars
SpecContact == Init /\ [][NextContact]_vars

\* ------------------------------------------------------------- properties

\* Every seed record of collection c, once.
SeedBag(c) == SetToBag({Seed(c)[i] : i \in 1..Len(Seed(c))})

\* Number of subscription records with email e.
RecordsFor(e) ==
  LET S == {d \in BagToSet(subscription) : d.email = e}
  IN BagCardinality([d \in S |-> subscription[d]])

\* The subscription record of email e, when there is exactly one.
RecordOf(e) == CHOOSE d \in BagToSet(subscription) : d.email = e

\* No two coursecategory records share a slug.
SlugUnique ==
  \A d \in BagToSet(coursecategory) :
     /\ CopiesIn(d, coursecategory) = 1
     /\ \A g \in BagToSet(coursecategory) : g.slug = d.slug => g = d

\* Some worker is inside the insert loop of the seeder of c.
Inserting(c) == \E w \in Workers : pc[w] = "insert" /\ loc[w].coll = c

ContentsNext(c) == IF c = "coursecategory" THEN coursecategory' ELSE staff'

ListOps == {"list_categories", "staff_list"}

\* C1: after any sequence and interleaving of subscribe calls, concurrent
\* ones with the same email included, the subscription collection holds at
\* most one record per email, and exactly one for every email submitted
\* successfully at least once.
C1_OneRecordPerEmail ==
  \A e \in Emails :
     /\ RecordsFor(e) <= 1
     /\ firstSub[e] # None => RecordsFor(e) = 1

\* C2: with a database, no overlapping calls and no store error on the
\* collection, a list call that finds the collection empty inserts exactly
\* the N seed records and returns exactly those; only the first call on the
\* collection finds it empty, and every later list call returns the same N
\* records and inserts nothing.
C2_SeedOnceThenStable ==
  (/\ resp.op \in ListOps
   /\ resp.status = 200
   /\ dbOn
   /\ SeederOf(resp.op) \notin overlapped
   /\ SeederOf(resp.op) \notin faulted)
  => LET c == SeederOf(resp.op)
     IN /\ resp.items = SeedBag(c)
        /\ Contents(c) = SeedBag(c)
        /\ BagCardinality(resp.items) = Len(Seed(c))
        /\ resp.zero <=> ~resp.later
        /\ resp.ins = IF resp.zero THEN Len(Seed(c)) ELSE 0

\* A later list call has answered the N seed records and has inserted
\* nothing, on a collection an earlier call seeded.
C2_Witness ==
  /\ resp.op \in ListOps
  /\ resp.status = 200
  /\ dbOn
  /\ SeederOf(resp.op) \notin overlapped
  /\ SeederOf(resp.op) \notin faulted
  /\ resp.later
  /\ resp.ins = 0
  /\ resp.items = SeedBag(SeederOf(resp.op))
  /\ nRequests >= 2

\* C3: for successive (not overlapping) subscribe calls with one email, the
\* single record of that email has the name and interests of the latest
\* call (None included), the created_at the first call set, and the
\* updated_at of the latest call, not earlier than the first call's.
C3_LatestFieldsFirstCreated ==
  "subscription" \notin overlapped =>
    \A e \in Emails :
       lastSub[e] # None =>
         /\ firstSub[e] # None
         /\ RecordsFor(e) = 1
         /\ LET d == RecordOf(e)
                first == firstSub[e][1]
                last == lastSub[e][1]
            IN /\ d.name = last.name
               /\ d.interests = last.interests
               /\ d.created_at = first.created_at
               /\ d.updated_at = last.updated_at
               /\ d.updated_at >= first.updated_at

\* Two successive calls with one email were answered "ok"; the second gave
\* another name (None) and other interests, and read a later clock.
C3_Witness ==
  /\ "subscription" \notin overlapped
  /\ resp.op = "subscribe"
  /\ resp.status = 200
  /\ \E e \in Emails :
       /\ firstSub[e] # None
       /\ lastSub[e] # None
       /\ RecordsFor(e) = 1
       /\ lastSub[e][1].name = None
       /\ firstSub[e][1].name # None
       /\ lastSub[e][1].interests # firstSub[e][1].interests
       /\ lastSub[e][1].created_at > firstSub[e][1].created_at
       /\ lastSub[e][1].updated_at > firstSub[e][1].updated_at

\* C4: with a database, category_detail(slug) answers the stored record
\* when a record has that slug and 404 when none has; it answers 500 only
\* when a store operation raised.
C4_DetailFoundOrNotFound ==
  (resp.op = "category_detail" /\ dbOn /\ resp.cause # "store") =>
    LET hits == {d \in BagToSet(coursecategory) : d.slug = resp.slug}
    IN IF hits = {}
       THEN resp.status = 404
       ELSE resp.status = 200 /\ \E d \in hits : resp.items = One(d)

\* C5: two seeder calls that both saw a zero count of one collection both
\* insert: every record either of them has inserted so far is in the
\* collection as a record of its own, so once both have finished the
\* collection holds every seed record twice.
C5_RacingSeedersBothInsert ==
  \A c \in SeededCollections : \A w \in Workers : \A v \in Workers \ {w} :
     (loc[w].coll = c /\ loc[v].coll = c /\ loc[w].zero /\ loc[v].zero) =>
        \A i \in 1..Len(Seed(c)) :
           CopiesIn(Seed(c)[i], Contents(c)) >=
             (IF i <= loc[w].ins THEN 1 ELSE 0)
               + (IF i <= loc[v].ins THEN 1 ELSE 0)

\* Two calls both saw coursecategory empty and both finished the loop: the
\* collection holds more than N records, two of them with the same slug.
C5_Witness ==
  /\ \E w \in Workers : \E v \in Workers \ {w} :
        /\ loc[w].coll = "coursecategory" /\ loc[w].zero /\ pc[w] = "find"
        /\ loc[v].coll = "coursecategory" /\ loc[v].zero /\ pc[v] = "find"
  /\ BagCardinality(coursecategory) > Len(CategorySeed)
  /\ \E d \in BagToSet(coursecategory) : CopiesIn(d, coursecategory) >= 2

\* C6 as stated: in every reachable state of coursecategory, under any
\* sequence or interleaving of list_categories and category_detail calls,
\* no two records share a slug.
C6_SlugUniqueAlways == SlugUnique

\* C6 as amended: as long as no two calls on coursecategory have been in
\* flight together, no two records share a slug.
C6_SlugUniqueWithoutOverlap ==
  "coursecategory" \notin overlapped => SlugUnique

\* A second call on coursecategory, not overlapping the first, has answered
\* and the collection is the seed catalog.
C6_Witness ==
  /\ "coursecategory" \notin overlapped
  /\ resp.op \in {"list_categories", "category_detail"}
  /\ resp.status = 200
  /\ resp.later
  /\ coursecategory = SeedBag("coursecategory")

\* C7: with db None, list_categories and staff_list answer an empty item
\* list as a success and no store operation is issued; /test answers a
\* status object that reports the store as not available; /test answers
\* (never an error) in every state.
C7_NoDatabaseDegrades ==
  /\ resp.op = "test" => resp.status = 200
  /\ ~dbOn =>
       /\ ~storeTouched
       /\ coursecategory = EmptyBag /\ staff = EmptyBag
       /\ resp.op \in ListOps => resp.status = 200 /\ resp.items = EmptyBag
       /\ resp.op = "test" => resp.cause = "Not Available"

\* With db None a list call has answered {"items": []} after another
\* request, and no store operation was issued.
C7_Witness ==
  /\ ~dbOn
  /\ resp.op \in ListOps
  /\ resp.status = 200
  /\ resp.items = EmptyBag
  /\ nRequests >= 2
  /\ ~storeTouched

\* C8: every contact submission that passes validation and meets no store
\* error adds exactly one record, also when an equal one is stored already
\* (k accepted submissions, k records); a submission that validation
\* rejects is answered 422 and adds nothing.
C8_OneRecordPerAcceptedContact ==
  /\ BagCardinality(contactmessage) = nContactOk
  /\ \A d \in BagToSet(contactmessage) : ValidContact(d)
  /\ resp.op = "contact" =>
       /\ resp.status = 200 => BagIn(resp.body, contactmessage)
       /\ ~ValidContact(resp.body) <=> resp.status = 422

\* Two equal submissions with a 10-character message are stored as two
\* records and a submission with a 9-character message has been rejected.
C8_Witness ==
  /\ resp.op = "contact"
  /\ resp.status = 422
  /\ resp.body.message = MessageMinLength - 1
  /\ resp.body.name >= NameMinLength
  /\ nContactOk = 2
  /\ \E d \in BagToSet(contactmessage) :
        d.message = MessageMinLength /\ CopiesIn(d, contactmessage) = 2

\* C9: with db None, subscribe answers 500 "Database not available"
\* without issuing a write: the subscription collection is unchanged.
C9_SubscribeFailsFast ==
  ~dbOn =>
    /\ subscription = EmptyBag
    /\ ~storeTouched
    /\ (resp.op = "subscribe" /\ ValidSubscription(resp.body)) =>
          resp.status = 500 /\ resp.cause = "unavailable"

\* With db None a valid subscription has been answered 500.
C9_Witness ==
  /\ ~dbOn
  /\ resp.op = "subscribe"
  /\ ValidSubscription(resp.body)
  /\ resp.status = 500
  /\ resp.cause = "unavailable"
  /\ subscription = EmptyBag

\* C10: the seeders insert one record at a time and only after counting
\* zero.  No step removes a record; a call enters the insert loop only from
\* a count of an empty collection; a store error inside the insert loop
\* ends the call with 500 and leaves the k records inserted so far; and a
\* collection that is not empty and has no insert loop in progress (so a
\* collection left with 0 < k < N records) is not inserted into by any
\* step.  A call that starts later therefore never adds the missing N - k.
C10_PartialSeedStays ==
  [][\A c \in SeededCollections :
       /\ Contents(c) \sqsubseteq ContentsNext(c)
       /\ \A w \in Workers :
             (loc[w].coll = c /\ pc[w] # "insert" /\ pc'[w] = "insert") =>
                pc[w] = "count" /\ Contents(c) = EmptyBag
       /\ (Contents(c) # EmptyBag /\ ~Inserting(c)) =>
             ContentsNext(c) = Contents(c)
       /\ \A w \in Workers :
             (pc[w] = "insert" /\ loc[w].coll = c /\ pc'[w] = "idle") =>
                /\ resp'.status = 500
                /\ resp'.cause = "store"
                /\ resp'.ins = loc[w].ins
                /\ ContentsNext(c) = Contents(c)
                /\ BagCardinality(Contents(c)) >= loc[w].ins]_vars

\* A seeder call was interrupted, the collection holds 0 < k < N records,
\* and a later list call has answered those k records and inserted nothing.
C10_Witness ==
  /\ resp.op \in ListOps
  /\ resp.status = 200
  /\ resp.later
  /\ resp.ins = 0
  /\ SeederOf(resp.op) \in faulted
  /\ ~Inserting(SeederOf(resp.op))
  /\ resp.items = Contents(SeederOf(resp.op))
  /\ BagCardinality(resp.items) > 0
  /\ BagCardinality(resp.items) < Len(Seed(SeederOf(resp.op)))

====
